---- MODULE Spec2Model ----
(***************************************************************************)
(* SupplyWise (StockWise Mobile): the stock ledger, the product registry,  *)
(* the batch view and the notification engine, modelled from               *)
(* src/src/database.                                                       *)
(*                                                                         *)
(* Tables are sequences of rows in rowid order.  Quantities are REAL in    *)
(* the schema; the model draws them from a small range of integers that    *)
(* includes zero and a negative value.  Dates are 'YYYY-MM-DD' strings.    *)
(* ret holds the outcome of the last handler: its return value or the      *)
(* error it threw, so that a refused call is a visible step.               *)
(*                                                                         *)
(* now is the device's local clock in hours.  A sweep's promise that has   *)
(* not settled shows in ret as "pending" while its callback is still to    *)
(* run, and as "abandoned" once the callback has thrown.                   *)
(***************************************************************************)
EXTENDS Integers, Sequences, FiniteSets, TLC

VARIABLES products, stock_transactions, nextTxId, ret,
          notifications, nextNotifId, now,
          calls, dbInstance, getters, closing, opened, nextHandle

vars == <<products, stock_transactions, nextTxId, ret,
          notifications, nextNotifId, now,
          calls, dbInstance, getters, closing, opened, nextHandle>>

\* what the registry and the ledger never touch
notifVars == <<notifications, nextNotifId, now>>

\* the connection: the module's dbInstance, the getDatabase and closeDatabase
\* calls that are suspended at their await, and the openDatabase calls made
\* since closeDatabase was last called
connVars == <<dbInstance, getters, closing, opened, nextHandle>>

\* what a handler that runs from call to return without another handler
\* running in between never touches: the handlers suspended at an await
\* (calls), and the connection
asyncVars == <<calls, connVars>>

(***************************************************************************)
(* Bounds of the model.                                                    *)
(***************************************************************************)
MaxProducts == 1
MaxTx == 2
MaxQty == 1
MaxFormQty == 1
MaxSweepProducts == 2
MaxNotifs == 2
MaxTicks == 3

MaxGetters == 2
MaxHandles == 3
MaxLedger == 3
MaxScreenNotifs == 4

NULL == "NULL"

\* two execution contexts whose handlers can be suspended at an await at
\* the same time
CallIds == {1, 2}

\* a context with no handler running
Idle == [op |-> "none", pc |-> "idle"]

\* the locals of a call that has just started
Started ==
    [op |-> "none", pc |-> "idle", productId |-> 0, type |-> NULL,
     quantity |-> 0, id |-> 0, oldStock |-> 0, newStock |-> 0, rows |-> <<>>]

\* the callers of getDatabase
GetterIds == 1 .. MaxGetters

\* 'let dbInstance = null': no handle; handles are numbered from 1
NoHandle == 0

\* a getDatabase call that has returned a handle (none before the first call)
Returned(handle) == [pc |-> "returned", handle |-> handle]

Types == {"IN", "OUT", "ADJUST"}

\* quantity arguments: createStockTransaction does not validate its argument
Quantities == (0 - 1) .. MaxQty

\* quantity arguments the stock-in and stock-out forms let through (qty > 0)
FormQuantities == 1 .. MaxFormQty

\* (batchNumber, batchExpiryDate) argument pairs
BatchTags == {<<NULL, NULL>>, <<"B100", "2025-01-01">>, <<"B200", "2025-02-10">>}

\* min_stock_threshold values of the product forms ('|| 0' when left empty)
Thresholds == {0, 1}

\* (batchNumber, batchExpiryDate) pairs a direct caller may pass: the expiry
\* date defaults to null also when a batch number is given
ApiBatchTags == {<<NULL, NULL>>, <<"B100", "2025-01-01">>, <<"B300", NULL>>}

\* product id arguments: the ids the table can hold, and one it never holds
ProductIdArgs == 1 .. (MaxProducts + 1)
TxIdArgs == 1 .. MaxTx

(***************************************************************************)
(* Row sets of the SELECTs.                                                *)
(***************************************************************************)
\* SELECT p.* FROM products p WHERE p.id = ?   (no is_active filter)
getProductById(id) ==
    IF id \in DOMAIN products THEN <<products[id]>> ELSE <<>>

\* SELECT st.* FROM stock_transactions st WHERE st.id = ?
getTransactionById(id) ==
    SelectSeq(stock_transactions, LAMBDA r : r.id = id)

\* faulty variant: the delete also recomputes balance_after of the later rows
DeleteRowRebalancing(txs, id) ==
    LET kept == SelectSeq(txs, LAMBDA r : r.id # id)
    IN  [i \in DOMAIN kept |->
            IF kept[i].id > id THEN [kept[i] EXCEPT !.balance_after = 0]
            ELSE kept[i]]

\* DELETE FROM stock_transactions WHERE id = ?
DeleteRow(txs, id) ==
    SelectSeq(txs, LAMBDA r : r.id # id)

\* UPDATE products SET current_stock = ? WHERE id = ?
updateProductStock(prods, productId, newStock) ==
    [i \in DOMAIN prods |->
        IF i = productId THEN [prods[i] EXCEPT !.current_stock = newStock]
        ELSE prods[i]]

(***************************************************************************)
(* The balance computations.                                               *)
(***************************************************************************)
\* faulty variant: an ADJUST is added to the old stock like an IN
NewStockAdjustAdds(current_stock, type, quantity) ==
    CASE type = "OUT" -> current_stock - quantity
      [] OTHER -> current_stock + quantity

\* createStockTransaction: new stock for a movement on a cached stock
NewStock(current_stock, type, quantity) ==
    CASE type = "IN" -> current_stock + quantity
      [] type = "OUT" -> current_stock - quantity
      [] type = "ADJUST" -> quantity
      [] OTHER -> current_stock

\* deleteTransaction: stock after taking a movement back
RevertedStock(current_stock, type, quantity) ==
    CASE type = "IN" -> current_stock - quantity
      [] type = "OUT" -> current_stock + quantity
      [] OTHER -> current_stock

\* the outcome of a handler: the value it returns, or the error it throws
Result(op, status, id, productId, oldStock, newStock) ==
    [op |-> op, status |-> status, id |-> id, productId |-> productId,
     oldStock |-> oldStock, newStock |-> newStock]

Throw(op, status) == Result(op, status, 0, 0, 0, 0)

\* faulty variant: the guard also refuses an OUT that empties the stock
InsufficientStockInclusive(type, newStock) == type = "OUT" /\ newStock <= 0

\* createStockTransaction: 'Prevent negative stock', checked for OUT only
InsufficientStock(type, newStock) == type = "OUT" /\ newStock < 0

NewRow(id, productId, type, quantity, balance, batchNumber, batchExpiryDate) ==
    [id |-> id, product_id |-> productId, type |-> type, quantity |-> quantity,
     balance_after |-> balance, batch_number |-> batchNumber,
     batch_expiry_date |-> batchExpiryDate]

(***************************************************************************)
(* Batch tracker: the product_batches view over the ledger.                *)
(***************************************************************************)
\* SUM(CASE WHEN st.type = t THEN st.quantity ELSE 0 END) over the rows of a group
RECURSIVE SumOfType(_, _)
SumOfType(rows, type) ==
    IF rows = <<>> THEN 0
    ELSE (IF Head(rows).type = type THEN Head(rows).quantity ELSE 0)
         + SumOfType(Tail(rows), type)

\* WHERE st.batch_number IS NOT NULL
\* GROUP BY st.product_id, st.batch_number, st.batch_expiry_date
BatchGroups ==
    {<<stock_transactions[i].product_id, stock_transactions[i].batch_number,
       stock_transactions[i].batch_expiry_date>> :
        i \in {j \in DOMAIN stock_transactions :
                  stock_transactions[j].batch_number # NULL}}

\* faulty variant: untagged movements of the product are counted in each of its batches
GroupRowsWithUntagged(g) ==
    SelectSeq(stock_transactions,
              LAMBDA r : /\ r.product_id = g[1]
                         /\ \/ r.batch_number = NULL
                            \/ (r.batch_number = g[2] /\ r.batch_expiry_date = g[3]))

GroupRows(g) ==
    SelectSeq(stock_transactions,
              LAMBDA r : /\ r.product_id = g[1]
                         /\ r.batch_number = g[2]
                         /\ r.batch_expiry_date = g[3])

total_in(g) == SumOfType(GroupRows(g), "IN")
total_out(g) == SumOfType(GroupRows(g), "OUT")
current_quantity(g) == total_in(g) - total_out(g)

\* the rows of the view: HAVING current_quantity > 0
product_batches ==
    {[product_id |-> g[1], batch_number |-> g[2], batch_expiry_date |-> g[3],
      total_in |-> total_in(g), total_out |-> total_out(g),
      current_quantity |-> current_quantity(g)] :
        g \in {h \in BatchGroups : current_quantity(h) > 0}}

RECURSIVE SumQuantity(_)
SumQuantity(rows) ==
    IF rows = {} THEN 0
    ELSE LET r == CHOOSE x \in rows : TRUE
         IN  r.current_quantity + SumQuantity(rows \ {r})

\* SELECT SUM(current_quantity) FROM product_batches WHERE product_id = ?
getTotalBatchQuantity(productId) ==
    SumQuantity({b \in product_batches : b.product_id = productId})

\* a 'YYYY-MM-DD' date as days since 2024-12-31
DayNumber(date) ==
    CASE date = "2025-01-01" -> 1
      [] date = "2025-01-31" -> 31
      [] date = "2025-02-10" -> 41

\* julianday(date) on the model's clock: midnight at the start of the date
julianday(date) == DayNumber(date) * 24

\* ORDER BY batch_expiry_date ASC: NULL sorts before every value, and
\* 'YYYY-MM-DD' texts sort in calendar order
OrderKey(date) == IF date = NULL THEN 0 ELSE DayNumber(date)

\* faulty variant: latest expiry first
OrderedRowsDescending(rows) ==
    {s \in [1 .. Cardinality(rows) -> rows] :
        /\ \A r \in rows : \E i \in DOMAIN s : s[i] = r
        /\ \A i, j \in DOMAIN s :
               i < j => OrderKey(s[i].batch_expiry_date)
                            >= OrderKey(s[j].batch_expiry_date)}

\* the result sequences ORDER BY batch_expiry_date ASC can deliver for a row
\* set: the order of rows with equal dates is not determined
OrderedRows(rows) ==
    {s \in [1 .. Cardinality(rows) -> rows] :
        /\ \A r \in rows : \E i \in DOMAIN s : s[i] = r
        /\ \A i, j \in DOMAIN s :
               i < j => OrderKey(s[i].batch_expiry_date)
                            <= OrderKey(s[j].batch_expiry_date)}

\* SELECT batch_number, batch_expiry_date, current_quantity
\* FROM product_batches WHERE product_id = ?
BatchRowsOf(productId) ==
    {[batch_number |-> b.batch_number, batch_expiry_date |-> b.batch_expiry_date,
      current_quantity |-> b.current_quantity] :
        b \in {v \in product_batches : v.product_id = productId}}

\* getProductBatches: the arrays the query can return
getProductBatches(productId) == OrderedRows(BatchRowsOf(productId))

\* getOldestBatch: ... ORDER BY batch_expiry_date ASC LIMIT 1; the values the
\* call can return, null when the product has no row in the view
getOldestBatch(productId) ==
    IF BatchRowsOf(productId) = {} THEN {NULL}
    ELSE {s[1] : s \in OrderedRows(BatchRowsOf(productId))}

\* (batchNumber, batchExpiryDate) pairs of the stock-in form, with expiry
\* dates 1, 31 and 41 days after the day the clock starts in
ExpiryBatchTags ==
    {<<"B100", "2025-01-01">>, <<"B131", "2025-01-31">>, <<"B200", "2025-02-10">>}

\* the day thresholds the callers pass
DaysThresholds == {30}

\* hours by which the device's local clock is ahead of UTC
UtcOffsets == {0, 7}

\* julianday(batch_expiry_date) - julianday('now'), in hours: 'now' without
\* the 'localtime' modifier is the UTC instant, the date is read as midnight
HoursUntilExpiry(date, utcOffset) == julianday(date) - (now - utcOffset)

\* CAST(days AS INTEGER) of a difference given in hours: the fraction is
\* cut off towards zero
CastDaysAsInteger(hours) ==
    IF hours >= 0 THEN hours \div 24 ELSE 0 - ((0 - hours) \div 24)

\* getExpiringBatches: SELECT product_id, batch_number, batch_expiry_date,
\* ..., current_quantity, CAST(... AS INTEGER) as days_until_expiry
\* FROM product_batches WHERE batch_expiry_date IS NOT NULL
\* AND julianday(batch_expiry_date) - julianday('now') <= ?
\* AND julianday(batch_expiry_date) - julianday('now') >= 0
ExpiringBatchRows(daysThreshold, utcOffset) ==
    {[product_id |-> b.product_id, batch_number |-> b.batch_number,
      batch_expiry_date |-> b.batch_expiry_date,
      current_quantity |-> b.current_quantity,
      days_until_expiry |->
          CastDaysAsInteger(HoursUntilExpiry(b.batch_expiry_date, utcOffset))] :
        b \in {v \in product_batches :
                  /\ v.batch_expiry_date # NULL
                  /\ HoursUntilExpiry(v.batch_expiry_date, utcOffset)
                         <= daysThreshold * 24
                  /\ HoursUntilExpiry(v.batch_expiry_date, utcOffset) >= 0}}

\* getExpiringBatches: the arrays the query can return on a device whose
\* clock is utcOffset hours ahead of UTC (ORDER BY batch_expiry_date ASC)
getExpiringBatches(daysThreshold, utcOffset) ==
    OrderedRows(ExpiringBatchRows(daysThreshold, utcOffset))

\* faulty variant: COUNT(*) in place of COUNT(DISTINCT product_id)
countExpiringProductsPerBatch(daysThreshold, utcOffset) ==
    Cardinality({v \in product_batches :
                    /\ v.batch_expiry_date # NULL
                    /\ HoursUntilExpiry(v.batch_expiry_date, utcOffset)
                           <= daysThreshold * 24
                    /\ HoursUntilExpiry(v.batch_expiry_date, utcOffset) >= 0})

\* countExpiringProducts: SELECT COUNT(DISTINCT product_id) as count
\* FROM product_batches WHERE batch_expiry_date IS NOT NULL
\* AND julianday(batch_expiry_date) - julianday('now') <= ?
\* AND julianday(batch_expiry_date) - julianday('now') >= 0
countExpiringProducts(daysThreshold, utcOffset) ==
    Cardinality({v.product_id :
                    v \in {w \in product_batches :
                              /\ w.batch_expiry_date # NULL
                              /\ HoursUntilExpiry(w.batch_expiry_date, utcOffset)
                                     <= daysThreshold * 24
                              /\ HoursUntilExpiry(w.batch_expiry_date, utcOffset)
                                     >= 0}})

(***************************************************************************)
(* Initial state: the tables as initDatabase creates them.                 *)
(***************************************************************************)
Init ==
    /\ products = <<>>
    /\ stock_transactions = <<>>
    /\ nextTxId = 1
    /\ ret = Result("none", "ok", 0, 0, 0, 0)
    /\ notifications = <<>>
    /\ nextNotifId = 1
    /\ now = 0
    /\ calls = [c \in CallIds |-> Idle]
    /\ dbInstance = NoHandle
    /\ getters = [g \in GetterIds |-> Returned(NoHandle)]
    /\ closing = NoHandle
    /\ opened = 0
    /\ nextHandle = 1

(***************************************************************************)
(* Product registry.                                                       *)
(***************************************************************************)
\* createProduct: INSERT the product; if current_stock > 0 also INSERT the
\* 'Initial stock' IN row
createProduct(current_stock, min_stock_threshold, expiry_date) ==
    LET id == Len(products) + 1 IN
    /\ products' = Append(products,
           [current_stock |-> current_stock, is_active |-> 1,
            min_stock_threshold |-> min_stock_threshold,
            expiry_date |-> expiry_date])
    /\ IF current_stock > 0
       THEN /\ nextTxId <= MaxTx
            /\ stock_transactions' = Append(stock_transactions,
                   NewRow(nextTxId, id, "IN", current_stock, current_stock, NULL, NULL))
            /\ nextTxId' = nextTxId + 1
       ELSE UNCHANGED <<stock_transactions, nextTxId>>
    /\ ret' = Result("createProduct", "ok", id, id, 0, 0)
    /\ UNCHANGED <<notifVars, asyncVars>>

\* faulty variant: the form's stock field is written back with the other fields
updateProductWithStock(id, min_stock_threshold, expiry_date) ==
    /\ products' = [i \in DOMAIN products |->
                      IF i = id
                      THEN [products[i] EXCEPT
                               !.current_stock = 0,
                               !.min_stock_threshold = min_stock_threshold,
                               !.expiry_date = expiry_date]
                      ELSE products[i]]
    /\ ret' = Result("updateProduct", "ok", 0, id, 0, 0)
    /\ UNCHANGED <<stock_transactions, nextTxId>>
    /\ UNCHANGED <<notifVars, asyncVars>>

\* updateProduct: UPDATE products SET name, ..., min_stock_threshold,
\* expiry_date WHERE id = ?  (current_stock and is_active are not in the SET)
updateProduct(id, min_stock_threshold, expiry_date) ==
    /\ products' = [i \in DOMAIN products |->
                      IF i = id
                      THEN [products[i] EXCEPT
                               !.min_stock_threshold = min_stock_threshold,
                               !.expiry_date = expiry_date]
                      ELSE products[i]]
    /\ ret' = Result("updateProduct", "ok", 0, id, 0, 0)
    /\ UNCHANGED <<stock_transactions, nextTxId>>
    /\ UNCHANGED <<notifVars, asyncVars>>

\* deleteProduct: soft delete
deleteProduct(id) ==
    /\ products' = [i \in DOMAIN products |->
                      IF i = id THEN [products[i] EXCEPT !.is_active = 0]
                      ELSE products[i]]
    /\ ret' = Result("deleteProduct", "ok", 0, id, 0, 0)
    /\ UNCHANGED <<stock_transactions, nextTxId>>
    /\ UNCHANGED <<notifVars, asyncVars>>

(***************************************************************************)
(* Stock ledger.                                                           *)
(***************************************************************************)
createStockTransaction(productId, type, quantity, batchNumber, batchExpiryDate) ==
    /\ LET rows == getProductById(productId) IN
       IF Len(rows) = 0
       THEN /\ ret' = Throw("createStockTransaction", "ProductNotFound")
            /\ UNCHANGED <<products, stock_transactions, nextTxId>>
       ELSE LET product == rows[1]
                newStock == NewStock(product.current_stock, type, quantity)
            IN  IF InsufficientStock(type, newStock)
                THEN /\ ret' = Throw("createStockTransaction", "InsufficientStock")
                     /\ UNCHANGED <<products, stock_transactions, nextTxId>>
                ELSE /\ nextTxId <= MaxTx
                     /\ stock_transactions' = Append(stock_transactions,
                            NewRow(nextTxId, productId, type, quantity, newStock,
                                   batchNumber, batchExpiryDate))
                     /\ nextTxId' = nextTxId + 1
                     /\ products' = updateProductStock(products, productId, newStock)
                     /\ ret' = Result("createStockTransaction", "ok", nextTxId, productId,
                                      product.current_stock, newStock)
    /\ UNCHANGED <<notifVars, asyncVars>>

\* faulty variant: the row is deleted before the negative-stock check
deleteTransactionDeleteFirst(id) ==
    /\ LET found == getTransactionById(id) IN
       IF Len(found) = 0
       THEN /\ ret' = Throw("deleteTransaction", "TransactionNotFound")
            /\ UNCHANGED <<products, stock_transactions, nextTxId>>
       ELSE LET transaction == found[1]
                product == getProductById(transaction.product_id)[1]
                revertedStock == RevertedStock(product.current_stock,
                                     transaction.type, transaction.quantity)
            IN  /\ stock_transactions' = DeleteRow(stock_transactions, id)
                /\ IF revertedStock < 0
                   THEN /\ ret' = Throw("deleteTransaction", "NegativeStock")
                        /\ UNCHANGED products
                   ELSE /\ products' = updateProductStock(products,
                                           transaction.product_id, revertedStock)
                        /\ ret' = Result("deleteTransaction", "ok", 0, 0, 0, 0)
                /\ UNCHANGED nextTxId
    /\ UNCHANGED <<notifVars, asyncVars>>

deleteTransaction(id) ==
    /\ LET found == getTransactionById(id) IN
       IF Len(found) = 0
       THEN /\ ret' = Throw("deleteTransaction", "TransactionNotFound")
            /\ UNCHANGED <<products, stock_transactions, nextTxId>>
       ELSE LET transaction == found[1]
                rows == getProductById(transaction.product_id)
            IN  IF Len(rows) = 0
                THEN /\ ret' = Throw("deleteTransaction", "ProductNotFound")
                     /\ UNCHANGED <<products, stock_transactions, nextTxId>>
                ELSE LET product == rows[1]
                         revertedStock == RevertedStock(product.current_stock,
                                              transaction.type, transaction.quantity)
                     IN  IF revertedStock < 0
                         THEN /\ ret' = Throw("deleteTransaction", "NegativeStock")
                              /\ UNCHANGED <<products, stock_transactions, nextTxId>>
                         ELSE /\ stock_transactions' = DeleteRow(stock_transactions, id)
                              /\ products' = updateProductStock(products,
                                                 transaction.product_id, revertedStock)
                              /\ ret' = Result("deleteTransaction", "ok", 0, 0, 0, 0)
                              /\ UNCHANGED nextTxId
    /\ UNCHANGED <<notifVars, asyncVars>>

(***************************************************************************)
(* The serial program: one execution context issues the operations.        *)
(***************************************************************************)
Next ==
    \/ \E s \in Quantities :
           Len(products) < MaxProducts /\ createProduct(s, 0, NULL)
    \/ \E p \in ProductIdArgs, t \in Types, q \in Quantities :
           createStockTransaction(p, t, q, NULL, NULL)
    \/ \E i \in TxIdArgs : deleteTransaction(i)

Spec == Init /\ [][Next]_vars

(***************************************************************************)
(* The serial program with batch-tagged movements, as the forms issue      *)
(* them: positive quantities, with or without a batch.                     *)
(***************************************************************************)
NextBatch ==
    \/ \E s \in 0 .. MaxFormQty :
           Len(products) < MaxProducts /\ createProduct(s, 0, NULL)
    \/ \E p \in ProductIdArgs, t \in Types, q \in FormQuantities, b \in BatchTags :
           createStockTransaction(p, t, q, b[1], b[2])
    \/ \E i \in TxIdArgs : deleteTransaction(i)

SpecBatch == Init /\ [][NextBatch]_vars

(***************************************************************************)
(* The ledger called directly, with the batch arguments the function       *)
(* accepts: a batch number with or without an expiry date.                 *)
(***************************************************************************)
NextBatchApi ==
    \/ \E s \in 0 .. MaxFormQty :
           Len(products) < MaxProducts /\ createProduct(s, 0, NULL)
    \/ \E p \in ProductIdArgs, t \in Types, q \in FormQuantities, b \in ApiBatchTags :
           createStockTransaction(p, t, q, b[1], b[2])
    \/ \E i \in TxIdArgs : deleteTransaction(i)

SpecBatchApi == Init /\ [][NextBatchApi]_vars

(***************************************************************************)
(* Persistence faults: the second statement of a ledger operation rejects  *)
(* after the first one has been applied.  Neither handler rolls back; the  *)
(* catch block logs and rethrows.                                          *)
(***************************************************************************)
\* createStockTransaction: the INSERT resolves, updateProductStock throws
createStockTransactionUpdateFails(productId, type, quantity, batchNumber, batchExpiryDate) ==
    /\ LET rows == getProductById(productId) IN
       /\ Len(rows) > 0
       /\ LET product == rows[1]
              newStock == NewStock(product.current_stock, type, quantity)
          IN  /\ ~InsufficientStock(type, newStock)
              /\ nextTxId <= MaxTx
              /\ stock_transactions' = Append(stock_transactions,
                     NewRow(nextTxId, productId, type, quantity, newStock,
                            batchNumber, batchExpiryDate))
              /\ nextTxId' = nextTxId + 1
              /\ ret' = Throw("createStockTransaction", "PersistenceError")
              /\ UNCHANGED products
    /\ UNCHANGED <<notifVars, asyncVars>>

\* deleteTransaction: the DELETE resolves, updateProductStock throws
deleteTransactionUpdateFails(id) ==
    /\ LET found == getTransactionById(id) IN
       /\ Len(found) > 0
       /\ LET transaction == found[1]
              rows == getProductById(transaction.product_id)
          IN  /\ Len(rows) > 0
              /\ RevertedStock(rows[1].current_stock, transaction.type,
                               transaction.quantity) >= 0
              /\ stock_transactions' = DeleteRow(stock_transactions, id)
              /\ ret' = Throw("deleteTransaction", "PersistenceError")
              /\ UNCHANGED <<products, nextTxId>>
    /\ UNCHANGED <<notifVars, asyncVars>>

NextFault ==
    \/ \E s \in 0 .. MaxFormQty :
           Len(products) < MaxProducts /\ createProduct(s, 0, NULL)
    \/ \E p \in ProductIdArgs, t \in Types, q \in FormQuantities :
           createStockTransaction(p, t, q, NULL, NULL)
    \/ \E i \in TxIdArgs : deleteTransaction(i)
    \/ \E p \in ProductIdArgs, t \in Types, q \in FormQuantities :
           createStockTransactionUpdateFails(p, t, q, NULL, NULL)
    \/ \E i \in TxIdArgs : deleteTransactionUpdateFails(i)

SpecFault == Init /\ [][NextFault]_vars

(***************************************************************************)
(* The serial program with the registry's edit and soft delete.            *)
(***************************************************************************)
NextRegistry ==
    \/ \E s \in 0 .. MaxFormQty :
           Len(products) < MaxProducts /\ createProduct(s, 0, NULL)
    \/ \E p \in ProductIdArgs : deleteProduct(p)
    \/ \E p \in ProductIdArgs, m \in Thresholds : updateProduct(p, m, NULL)
    \/ \E p \in ProductIdArgs, t \in Types, q \in FormQuantities :
           createStockTransaction(p, t, q, NULL, NULL)
    \/ \E i \in TxIdArgs : deleteTransaction(i)

SpecRegistry == Init /\ [][NextRegistry]_vars

(***************************************************************************)
(* Notification engine.  Times are hours of the device's local clock since *)
(* 2024-12-31 00:00.                                                       *)
(***************************************************************************)
NotificationTypes ==
    {"LOW_STOCK", "EXPIRING_SOON", "STOCK_IN", "STOCK_OUT",
     "PRODUCT_ADDED", "PRODUCT_EDITED"}

\* type arguments of createNotification: three of the types, and one that is
\* no notification type
TypeArgs == {"LOW_STOCK", "STOCK_OUT", "PRODUCT_ADDED", "RESTOCKED"}

NotifIdArgs == 1 .. MaxNotifs

\* stock levels and expiry dates of the products the sweeps look at
SweepStocks == {0, 1, 2}
ExpiryDates == {NULL, "2025-01-01"}

\* expiry dates of the products the expiry sweep looks at over two days: one
\* that passes and one that enters the 30-day window
SweepExpiryDates == {NULL, "2025-01-01", "2025-01-31"}

\* createNotification: the switch on type
Priority(type) ==
    CASE type \in {"LOW_STOCK", "EXPIRING_SOON"} -> "HIGH"
      [] type \in {"STOCK_IN", "STOCK_OUT"} -> "MEDIUM"
      [] type \in {"PRODUCT_ADDED", "PRODUCT_EDITED"} -> "LOW"

\* created_at of a new row: the column's default, the local time of the INSERT
created_at == now

\* INSERT INTO notifications (type, priority, ..., product_id, ..., quantity,
\* ..., is_read) VALUES (..., 0)
InsertNotification(notifs, id, type, productId, quantity) ==
    Append(notifs,
           [id |-> id, type |-> type, priority |-> Priority(type),
            product_id |-> productId, quantity |-> quantity,
            is_read |-> 0, created_at |-> created_at])

\* faulty variant: the recency query leaves out the type
checkRecentNotificationAnyType(notifs, type, productId, hoursAgo) ==
    \E i \in DOMAIN notifs :
        /\ notifs[i].product_id = productId
        /\ notifs[i].created_at >= now - hoursAgo

\* faulty variant: a notification exactly hoursAgo old no longer counts
checkRecentNotificationExclusive(notifs, type, productId, hoursAgo) ==
    \E i \in DOMAIN notifs :
        /\ notifs[i].type = type
        /\ notifs[i].product_id = productId
        /\ notifs[i].created_at > now - hoursAgo

\* checkRecentNotification: SELECT id FROM notifications WHERE type = ? AND
\* product_id = ? AND datetime(created_at) >=
\* datetime('now', 'localtime', '-N hours') LIMIT 1; rows.length > 0
checkRecentNotification(notifs, type, productId, hoursAgo) ==
    \E i \in DOMAIN notifs :
        /\ notifs[i].type = type
        /\ notifs[i].product_id = productId
        /\ notifs[i].created_at >= now - hoursAgo

\* the ids of the products table in rowid order
ProductIds == [i \in 1 .. Len(products) |-> i]

\* faulty variant: a threshold of 0 is swept too
lowStockProductsAnyThreshold ==
    SelectSeq(ProductIds,
              LAMBDA i : /\ products[i].is_active = 1
                         /\ products[i].current_stock
                                <= products[i].min_stock_threshold)

\* checkLowStockAlerts: SELECT ... FROM products WHERE is_active = 1 AND
\* current_stock <= min_stock_threshold AND min_stock_threshold > 0
lowStockProducts ==
    SelectSeq(ProductIds,
              LAMBDA i : /\ products[i].is_active = 1
                         /\ products[i].current_stock
                                <= products[i].min_stock_threshold
                         /\ products[i].min_stock_threshold > 0)

\* checkExpiringAlerts: SELECT ... FROM products WHERE is_active = 1 AND
\* expiry_date IS NOT NULL AND julianday(expiry_date) > julianday('now',
\* 'localtime') AND julianday(expiry_date) <= julianday('now', 'localtime',
\* '+30 days')
expiringProducts ==
    SelectSeq(ProductIds,
              LAMBDA i : /\ products[i].is_active = 1
                         /\ products[i].expiry_date # NULL
                         /\ julianday(products[i].expiry_date) > now
                         /\ julianday(products[i].expiry_date) <= now + 30 * 24)

\* the quantity a sweep passes to createNotification: the low-stock sweep
\* passes current_stock, the expiry sweep passes none
SweepQuantity(type, productId) ==
    IF type = "LOW_STOCK" THEN products[productId].current_stock ELSE NULL

\* the loop of a sweep's result callback over the selected products: for
\* each, checkRecentNotification(type, product.id, 24) and, if none,
\* createNotification
RECURSIVE SweepLoop(_, _, _, _)
SweepLoop(type, ids, notifs, nextId) ==
    IF ids = <<>> THEN [notifications |-> notifs, nextNotifId |-> nextId]
    ELSE IF checkRecentNotification(notifs, type, Head(ids), 24)
         THEN SweepLoop(type, Tail(ids), notifs, nextId)
         ELSE SweepLoop(type, Tail(ids),
                        InsertNotification(notifs, nextId, type, Head(ids),
                                           SweepQuantity(type, Head(ids))),
                        nextId + 1)

\* a promise resolved with a number, which is kept in the id field
Resolve(op, value) == Result(op, "ok", value, 0, 0, 0)

\* a sweep is called: it returns a promise; the SELECT is handed to the
\* database, its callbacks run later
SweepCall(op) ==
    /\ ret' = Result(op, "pending", 0, 0, 0, 0)
    /\ UNCHANGED <<asyncVars, products, stock_transactions, nextTxId, notifVars>>

\* the async success callback of the SELECT runs the loop to its end and
\* resolves the promise with the number of selected products
SweepCallback(op, type, ids) ==
    LET done == SweepLoop(type, ids, notifications, nextNotifId) IN
    /\ ret.op = op /\ ret.status = "pending"
    /\ done.nextNotifId <= MaxNotifs + 1 \/ done.nextNotifId = nextNotifId
    /\ notifications' = done.notifications
    /\ nextNotifId' = done.nextNotifId
    /\ ret' = Resolve(op, Len(ids))
    /\ UNCHANGED <<asyncVars, products, stock_transactions, nextTxId, now>>

\* the error callback of the SELECT rejects the promise
SweepQueryFails(op) ==
    /\ ret.op = op /\ ret.status = "pending"
    /\ ret' = Throw(op, "PersistenceError")
    /\ UNCHANGED <<asyncVars, products, stock_transactions, nextTxId, notifVars>>

\* checkRecentNotification or createNotification rejects for the k-th
\* selected product: the await throws inside the async callback, whose own
\* promise nobody holds; the products before the k-th have been processed,
\* resolve and reject are never called and no callback is left to call them
SweepCallbackThrows(op, type, ids, k) ==
    LET done == SweepLoop(type, SubSeq(ids, 1, k - 1), notifications, nextNotifId) IN
    /\ ret.op = op /\ ret.status = "pending"
    /\ k \in DOMAIN ids
    /\ done.nextNotifId <= MaxNotifs + 1
    /\ notifications' = done.notifications
    /\ nextNotifId' = done.nextNotifId
    /\ ret' = Result(op, "abandoned", 0, 0, 0, 0)
    /\ UNCHANGED <<asyncVars, products, stock_transactions, nextTxId, now>>

checkLowStockAlerts == SweepCall("checkLowStockAlerts")

checkLowStockAlertsCallback ==
    SweepCallback("checkLowStockAlerts", "LOW_STOCK", lowStockProducts)

checkLowStockAlertsQueryFails == SweepQueryFails("checkLowStockAlerts")

checkLowStockAlertsCallbackThrows(k) ==
    SweepCallbackThrows("checkLowStockAlerts", "LOW_STOCK", lowStockProducts, k)

checkExpiringAlerts == SweepCall("checkExpiringAlerts")

checkExpiringAlertsCallback ==
    SweepCallback("checkExpiringAlerts", "EXPIRING_SOON", expiringProducts)

checkExpiringAlertsQueryFails == SweepQueryFails("checkExpiringAlerts")

checkExpiringAlertsCallbackThrows(k) ==
    SweepCallbackThrows("checkExpiringAlerts", "EXPIRING_SOON", expiringProducts, k)

\* createNotification: an unknown type throws before any statement
createNotification(type, productId, quantity) ==
    /\ IF type \notin NotificationTypes
       THEN /\ ret' = Throw("createNotification", "InvalidType")
            /\ UNCHANGED <<notifications, nextNotifId>>
       ELSE /\ nextNotifId <= MaxNotifs
            /\ notifications' = InsertNotification(notifications, nextNotifId,
                                                   type, productId, quantity)
            /\ nextNotifId' = nextNotifId + 1
            /\ ret' = Resolve("createNotification", nextNotifId)
    /\ UNCHANGED <<asyncVars, products, stock_transactions, nextTxId, now>>

\* rowsAffected of an UPDATE or DELETE, given the rows its WHERE matches
RowsAffected(matched) == Len(matched)

\* faulty variant: marking a read notification makes it unread again
markAsReadToggle(notificationId) ==
    /\ notifications' = [i \in DOMAIN notifications |->
           IF notifications[i].id = notificationId
           THEN [notifications[i] EXCEPT !.is_read = 1 - notifications[i].is_read]
           ELSE notifications[i]]
    /\ ret' = Resolve("markAsRead",
                      RowsAffected(SelectSeq(notifications,
                                               LAMBDA n : n.id = notificationId)))
    /\ UNCHANGED <<asyncVars, products, stock_transactions, nextTxId, nextNotifId, now>>

\* markAsRead: UPDATE notifications SET is_read = 1 WHERE id = ?
markAsRead(notificationId) ==
    /\ notifications' = [i \in DOMAIN notifications |->
           IF notifications[i].id = notificationId
           THEN [notifications[i] EXCEPT !.is_read = 1]
           ELSE notifications[i]]
    /\ ret' = Resolve("markAsRead",
                      RowsAffected(SelectSeq(notifications,
                                               LAMBDA n : n.id = notificationId)))
    /\ UNCHANGED <<asyncVars, products, stock_transactions, nextTxId, nextNotifId, now>>

\* markAllAsRead: UPDATE notifications SET is_read = 1 WHERE is_read = 0
markAllAsRead ==
    /\ notifications' = [i \in DOMAIN notifications |->
           IF notifications[i].is_read = 0
           THEN [notifications[i] EXCEPT !.is_read = 1]
           ELSE notifications[i]]
    /\ ret' = Resolve("markAllAsRead",
                      RowsAffected(SelectSeq(notifications,
                                               LAMBDA n : n.is_read = 0)))
    /\ UNCHANGED <<asyncVars, products, stock_transactions, nextTxId, nextNotifId, now>>

\* faulty variant: the row is kept and marked read, a soft delete
deleteNotificationMarksRead(notificationId) ==
    /\ notifications' = [i \in DOMAIN notifications |->
           IF notifications[i].id = notificationId
           THEN [notifications[i] EXCEPT !.is_read = 1]
           ELSE notifications[i]]
    /\ ret' = Resolve("deleteNotification",
                      RowsAffected(SelectSeq(notifications,
                                               LAMBDA n : n.id = notificationId)))
    /\ UNCHANGED <<asyncVars, products, stock_transactions, nextTxId, nextNotifId, now>>

\* deleteNotification: DELETE FROM notifications WHERE id = ?
deleteNotification(notificationId) ==
    /\ notifications' = SelectSeq(notifications, LAMBDA n : n.id # notificationId)
    /\ ret' = Resolve("deleteNotification",
                      RowsAffected(SelectSeq(notifications,
                                               LAMBDA n : n.id = notificationId)))
    /\ UNCHANGED <<asyncVars, products, stock_transactions, nextTxId, nextNotifId, now>>

\* clearReadNotifications: DELETE FROM notifications WHERE is_read = 1
clearReadNotifications ==
    /\ notifications' = SelectSeq(notifications, LAMBDA n : n.is_read # 1)
    /\ ret' = Resolve("clearReadNotifications",
                      RowsAffected(SelectSeq(notifications,
                                               LAMBDA n : n.is_read = 1)))
    /\ UNCHANGED <<asyncVars, products, stock_transactions, nextTxId, nextNotifId, now>>

\* clearAllNotifications: DELETE FROM notifications
clearAllNotifications ==
    /\ notifications' = <<>>
    /\ ret' = Resolve("clearAllNotifications", Len(notifications))
    /\ UNCHANGED <<asyncVars, products, stock_transactions, nextTxId, nextNotifId, now>>

\* twelve hours pass with no handler running
Tick ==
    /\ now + 12 <= 12 * MaxTicks
    /\ now' = now + 12
    /\ ret' = Result("none", "ok", 0, 0, 0, 0)
    /\ UNCHANGED <<asyncVars, products, stock_transactions, nextTxId,
                   notifications, nextNotifId>>

(***************************************************************************)
(* The notification list: notifications are created, read and cleared.     *)
(***************************************************************************)
NextRead ==
    \/ \E t \in TypeArgs : createNotification(t, 1, 1)
    \/ \E i \in NotifIdArgs : markAsRead(i)
    \/ markAllAsRead
    \/ \E i \in NotifIdArgs : deleteNotification(i)
    \/ clearReadNotifications
    \/ clearAllNotifications

SpecRead == Init /\ [][NextRead]_vars

(***************************************************************************)
(* The low-stock sweep over time: products are created, edited and         *)
(* soft-deleted, notifications are deleted, the clock advances, the sweep  *)
(* is called and its callback runs before the next operation is issued.    *)
(***************************************************************************)
NextSweep ==
    \/ /\ ret.status # "pending"
       /\ \/ \E s \in SweepStocks, m \in Thresholds :
                 Len(products) < MaxProducts /\ createProduct(s, m, NULL)
          \/ \E p \in DOMAIN products : deleteProduct(p)
          \/ \E p \in DOMAIN products, m \in Thresholds : updateProduct(p, m, NULL)
          \/ Tick
          \/ checkLowStockAlerts
          \/ \E i \in NotifIdArgs : deleteNotification(i)
    \/ checkLowStockAlertsCallback

SpecSweep == Init /\ [][NextSweep]_vars

(***************************************************************************)
(* The two sweeps with persistence errors: the SELECT of a sweep fails, or *)
(* a statement issued from inside its callback fails.                      *)
(***************************************************************************)
SweepCallbacks ==
    \/ checkLowStockAlertsCallback
    \/ checkLowStockAlertsQueryFails
    \/ \E k \in 1 .. MaxSweepProducts : checkLowStockAlertsCallbackThrows(k)
    \/ checkExpiringAlertsCallback
    \/ checkExpiringAlertsQueryFails
    \/ \E k \in 1 .. MaxSweepProducts : checkExpiringAlertsCallbackThrows(k)

NextSweepFault ==
    \/ /\ ret.status # "pending"
       /\ \/ \E m \in Thresholds, e \in ExpiryDates :
                 Len(products) < MaxSweepProducts /\ createProduct(0, m, e)
          \/ checkLowStockAlerts
          \/ checkExpiringAlerts
    \/ SweepCallbacks

SpecSweepFault == Init /\ [][NextSweepFault]_vars

\* the database delivers the result of a statement: a queued callback runs
SpecSweepFair == SpecSweepFault /\ WF_vars(SweepCallbacks)

(***************************************************************************)
(* The two sweeps over time: products with and without an expiry date are  *)
(* created and soft-deleted, the clock advances, either sweep is called    *)
(* and its callback runs before the next operation is issued.              *)
(***************************************************************************)
NextExpirySweep ==
    \/ /\ ret.status # "pending"
       /\ \/ \E m \in Thresholds, e \in SweepExpiryDates :
                 Len(products) < MaxSweepProducts /\ createProduct(0, m, e)
          \/ \E p \in DOMAIN products : deleteProduct(p)
          \/ Tick
          \/ checkLowStockAlerts
          \/ checkExpiringAlerts
    \/ checkLowStockAlertsCallback
    \/ checkExpiringAlertsCallback

SpecExpirySweep == Init /\ [][NextExpirySweep]_vars

(***************************************************************************)
(* Ledger operations in flight.  createStockTransaction and                *)
(* deleteTransaction are async functions: each await hands control back,   *)
(* and another handler may run before the function goes on.  A step is     *)
(* what one call does from one await to the next; the database executes    *)
(* each statement as a whole.  No transaction spans the statements.        *)
(***************************************************************************)
\* the quantities of the concurrent calls: > 0 for IN and OUT, a target
\* >= 0 for ADJUST
RaceQuantities(type) == IF type = "ADJUST" THEN {0, 1} ELSE {1}

\* the stock the product of the concurrent calls starts with
RaceStocks == {0, 1}

\* the initial stock and the quantities of two racing stock-out movements
RaceOutQuantities == {1, 2}

\* a new call is suspended in the first free place
FirstIdle(c) ==
    calls[c].pc = "idle" /\ \A d \in CallIds : d < c => calls[d].pc # "idle"

RaceTxIdArgs == 1 .. MaxTx

Suspended(c, op, pc) == calls[c].op = op /\ calls[c].pc = pc

\* faulty variant: the OUT branch does not check the new stock
createStockTransactionReadUnchecked(c, productId, type, quantity) ==
    /\ calls[c].pc = "idle"
    /\ LET rows == getProductById(productId) IN
       IF Len(rows) = 0
       THEN /\ ret' = Throw("createStockTransaction", "ProductNotFound")
            /\ UNCHANGED calls
       ELSE /\ calls' = [calls EXCEPT ![c] =
                   [Started EXCEPT !.op = "createStockTransaction", !.pc = "insert",
                                !.productId = productId, !.type = type,
                                !.quantity = quantity,
                                !.oldStock = rows[1].current_stock,
                                !.newStock = NewStock(rows[1].current_stock,
                                                      type, quantity)]]
            /\ UNCHANGED ret
    /\ UNCHANGED <<products, stock_transactions, nextTxId, notifVars, connVars>>

\* createStockTransaction up to its INSERT: 'await getProductById(productId)'
\* returns the row as it is now; the new stock is computed and checked from
\* that row
createStockTransactionRead(c, productId, type, quantity) ==
    /\ calls[c].pc = "idle"
    /\ LET rows == getProductById(productId) IN
       IF Len(rows) = 0
       THEN /\ ret' = Throw("createStockTransaction", "ProductNotFound")
            /\ UNCHANGED calls
       ELSE LET product == rows[1]
                newStock == NewStock(product.current_stock, type, quantity)
            IN  IF InsufficientStock(type, newStock)
                THEN /\ ret' = Throw("createStockTransaction", "InsufficientStock")
                     /\ UNCHANGED calls
                ELSE /\ calls' = [calls EXCEPT ![c] =
                            [Started EXCEPT !.op = "createStockTransaction",
                                         !.pc = "insert",
                                         !.productId = productId, !.type = type,
                                         !.quantity = quantity,
                                         !.oldStock = product.current_stock,
                                         !.newStock = newStock]]
                     /\ UNCHANGED ret
    /\ UNCHANGED <<products, stock_transactions, nextTxId, notifVars, connVars>>

\* 'await db.executeSql(INSERT INTO stock_transactions ...)' with the
\* balance_after computed before
createStockTransactionInsert(c) ==
    /\ Suspended(c, "createStockTransaction", "insert")
    /\ stock_transactions' = Append(stock_transactions,
           NewRow(nextTxId, calls[c].productId, calls[c].type, calls[c].quantity,
                  calls[c].newStock, NULL, NULL))
    /\ nextTxId' = nextTxId + 1
    /\ calls' = [calls EXCEPT ![c].pc = "update", ![c].id = nextTxId]
    /\ UNCHANGED <<products, ret, notifVars, connVars>>

\* faulty variant: the UPDATE applies the movement to the stock it finds
createStockTransactionUpdateRelative(c) ==
    /\ Suspended(c, "createStockTransaction", "update")
    /\ products' = updateProductStock(products, calls[c].productId,
                       NewStock(products[calls[c].productId].current_stock,
                                calls[c].type, calls[c].quantity))
    /\ ret' = Result("createStockTransaction", "ok", calls[c].id,
                     calls[c].productId, calls[c].oldStock, calls[c].newStock)
    /\ calls' = [calls EXCEPT ![c] = Idle]
    /\ UNCHANGED <<stock_transactions, nextTxId, notifVars, connVars>>

\* 'await updateProductStock(productId, newStock)' and the return
createStockTransactionUpdate(c) ==
    /\ Suspended(c, "createStockTransaction", "update")
    /\ products' = updateProductStock(products, calls[c].productId,
                                      calls[c].newStock)
    /\ ret' = Result("createStockTransaction", "ok", calls[c].id,
                     calls[c].productId, calls[c].oldStock, calls[c].newStock)
    /\ calls' = [calls EXCEPT ![c] = Idle]
    /\ UNCHANGED <<stock_transactions, nextTxId, notifVars, connVars>>

\* deleteTransaction up to its second SELECT: 'await getTransactionById(id)'
deleteTransactionReadTransaction(c, id) ==
    /\ calls[c].pc = "idle"
    /\ LET found == getTransactionById(id) IN
       IF Len(found) = 0
       THEN /\ ret' = Throw("deleteTransaction", "TransactionNotFound")
            /\ UNCHANGED calls
       ELSE /\ calls' = [calls EXCEPT ![c] =
                   [Started EXCEPT !.op = "deleteTransaction", !.pc = "product",
                                !.id = id,
                                !.productId = found[1].product_id,
                                !.type = found[1].type,
                                !.quantity = found[1].quantity]]
            /\ UNCHANGED ret
    /\ UNCHANGED <<products, stock_transactions, nextTxId, notifVars, connVars>>

\* 'await getProductById(transaction.product_id)'; the reverted stock is
\* computed and checked from that row
deleteTransactionReadProduct(c) ==
    /\ Suspended(c, "deleteTransaction", "product")
    /\ LET rows == getProductById(calls[c].productId) IN
       IF Len(rows) = 0
       THEN /\ ret' = Throw("deleteTransaction", "ProductNotFound")
            /\ calls' = [calls EXCEPT ![c] = Idle]
       ELSE LET revertedStock == RevertedStock(rows[1].current_stock,
                                     calls[c].type, calls[c].quantity)
            IN  IF revertedStock < 0
                THEN /\ ret' = Throw("deleteTransaction", "NegativeStock")
                     /\ calls' = [calls EXCEPT ![c] = Idle]
                ELSE /\ calls' = [calls EXCEPT ![c].pc = "delete",
                                              ![c].oldStock = rows[1].current_stock,
                                              ![c].newStock = revertedStock]
                     /\ UNCHANGED ret
    /\ UNCHANGED <<products, stock_transactions, nextTxId, notifVars, connVars>>

\* 'await db.executeSql(DELETE FROM stock_transactions WHERE id = ?)'
deleteTransactionDelete(c) ==
    /\ Suspended(c, "deleteTransaction", "delete")
    /\ stock_transactions' = DeleteRow(stock_transactions, calls[c].id)
    /\ calls' = [calls EXCEPT ![c].pc = "update"]
    /\ UNCHANGED <<products, nextTxId, ret, notifVars, connVars>>

\* 'await updateProductStock(transaction.product_id, revertedStock)' and the
\* return
deleteTransactionUpdate(c) ==
    /\ Suspended(c, "deleteTransaction", "update")
    /\ products' = updateProductStock(products, calls[c].productId,
                                      calls[c].newStock)
    /\ ret' = Result("deleteTransaction", "ok", 0, 0, 0, 0)
    /\ calls' = [calls EXCEPT ![c] = Idle]
    /\ UNCHANGED <<stock_transactions, nextTxId, notifVars, connVars>>

(***************************************************************************)
(* Several execution contexts: one product is created, then movements and *)
(* reversals on it are called while others are still suspended.            *)
(***************************************************************************)
NextRace ==
    \/ \E s \in RaceStocks : products = <<>> /\ createProduct(s, 0, NULL)
    \/ \E c \in CallIds, p \in DOMAIN products, t \in Types :
           \E q \in RaceQuantities(t) :
               FirstIdle(c) /\ createStockTransactionRead(c, p, t, q)
    \/ \E c \in CallIds : nextTxId <= MaxTx /\ createStockTransactionInsert(c)
    \/ \E c \in CallIds : createStockTransactionUpdate(c)
    \/ \E c \in CallIds, i \in RaceTxIdArgs :
           FirstIdle(c) /\ deleteTransactionReadTransaction(c, i)
    \/ \E c \in CallIds : deleteTransactionReadProduct(c)
    \/ \E c \in CallIds : deleteTransactionDelete(c)
    \/ \E c \in CallIds : deleteTransactionUpdate(c)

SpecRace == Init /\ [][NextRace]_vars

(***************************************************************************)
(* Two stock-out movements on one product, called while the other may      *)
(* still be suspended.                                                     *)
(***************************************************************************)
NextRaceOut ==
    \/ \E s \in RaceOutQuantities : products = <<>> /\ createProduct(s, 0, NULL)
    \/ \E c \in CallIds, p \in DOMAIN products, q \in RaceOutQuantities :
           FirstIdle(c) /\ createStockTransactionRead(c, p, "OUT", q)
    \/ \E c \in CallIds : nextTxId <= MaxLedger /\ createStockTransactionInsert(c)
    \/ \E c \in CallIds : createStockTransactionUpdate(c)

SpecRaceOut == Init /\ [][NextRaceOut]_vars

(***************************************************************************)
(* The low-stock sweep in flight.  The result callback of the sweep's      *)
(* SELECT is an async function: it awaits checkRecentNotification and      *)
(* createNotification for one product after the other, and another handler *)
(* may run at each await.                                                  *)
(***************************************************************************)
\* the rows of the sweep's SELECT: id and current_stock of the low products
lowStockRows ==
    [i \in DOMAIN lowStockProducts |->
        [id |-> lowStockProducts[i],
         current_stock |-> products[lowStockProducts[i]].current_stock]]

\* the loop goes on with the products that are left, or has reached
\* resolve(lowStockProducts.length)
SweepGoesOn(c, left) ==
    IF left = <<>>
    THEN /\ calls' = [calls EXCEPT ![c] = Idle]
         /\ ret' = Resolve("checkLowStockAlerts", calls[c].quantity)
    ELSE /\ calls' = [calls EXCEPT ![c].pc = "check", ![c].rows = left]
         /\ UNCHANGED ret

\* checkLowStockAlerts up to the first await of its callback: the SELECT
\* delivers the products that are low now
checkLowStockAlertsSelect(c) ==
    /\ calls[c].pc = "idle"
    /\ IF lowStockRows = <<>>
       THEN /\ ret' = Resolve("checkLowStockAlerts", 0)
            /\ UNCHANGED calls
       ELSE /\ calls' = [calls EXCEPT ![c] =
                   [Started EXCEPT !.op = "checkLowStockAlerts", !.pc = "check",
                                !.rows = lowStockRows,
                                !.quantity = Len(lowStockRows)]]
            /\ UNCHANGED ret
    /\ UNCHANGED <<products, stock_transactions, nextTxId, notifVars, connVars>>

\* 'await checkRecentNotification(LOW_STOCK, product.id, 24)' for the next
\* product of the loop
checkLowStockAlertsCheck(c) ==
    /\ Suspended(c, "checkLowStockAlerts", "check")
    /\ IF checkRecentNotification(notifications, "LOW_STOCK",
                                  Head(calls[c].rows).id, 24)
       THEN SweepGoesOn(c, Tail(calls[c].rows))
       ELSE /\ calls' = [calls EXCEPT ![c].pc = "create"]
            /\ UNCHANGED ret
    /\ UNCHANGED <<products, stock_transactions, nextTxId, notifVars, connVars>>

\* faulty variant: the INSERT is refused when the product has a recent
\* notification of the type, as under a unique constraint
checkLowStockAlertsCreateUnique(c) ==
    /\ Suspended(c, "checkLowStockAlerts", "create")
    /\ IF checkRecentNotification(notifications, "LOW_STOCK",
                                  Head(calls[c].rows).id, 24)
       THEN UNCHANGED <<notifications, nextNotifId>>
       ELSE /\ notifications' = InsertNotification(notifications, nextNotifId,
                                    "LOW_STOCK", Head(calls[c].rows).id,
                                    Head(calls[c].rows).current_stock)
            /\ nextNotifId' = nextNotifId + 1
    /\ SweepGoesOn(c, Tail(calls[c].rows))
    /\ UNCHANGED <<products, stock_transactions, nextTxId, now, connVars>>

\* 'await createNotification(LOW_STOCK, {productId, ..., quantity:
\* product.current_stock})' for the product just checked
checkLowStockAlertsCreate(c) ==
    /\ Suspended(c, "checkLowStockAlerts", "create")
    /\ notifications' = InsertNotification(notifications, nextNotifId,
                            "LOW_STOCK", Head(calls[c].rows).id,
                            Head(calls[c].rows).current_stock)
    /\ nextNotifId' = nextNotifId + 1
    /\ SweepGoesOn(c, Tail(calls[c].rows))
    /\ UNCHANGED <<products, stock_transactions, nextTxId, now, connVars>>

(***************************************************************************)
(* Overlapping sweeps: the notification screen calls the sweep when it     *)
(* mounts and on every pull-to-refresh, without waiting for a sweep that   *)
(* is still running.                                                       *)
(***************************************************************************)
NextSweepRace ==
    \/ \E s \in SweepStocks, m \in Thresholds :
           Len(products) < MaxProducts /\ createProduct(s, m, NULL)
    \/ Tick
    \/ \E c \in CallIds : FirstIdle(c) /\ checkLowStockAlertsSelect(c)
    \/ \E c \in CallIds : checkLowStockAlertsCheck(c)
    \/ \E c \in CallIds : nextNotifId <= MaxNotifs /\ checkLowStockAlertsCreate(c)

SpecSweepRace == Init /\ [][NextSweepRace]_vars

(***************************************************************************)
(* The database connection.  dbInstance is module-level state; getDatabase *)
(* tests it, awaits SQLite.openDatabase and assigns the result;            *)
(* closeDatabase awaits close() and clears it.  Each caller's call is in   *)
(* getters; a step is the code between two awaits.                         *)
(***************************************************************************)
\* handles SQLite.openDatabase may resolve with: a new connection object, or
\* the one the module holds
OpenResults == {nextHandle} \cup ({dbInstance} \ {NoHandle})

\* a caller has no call in flight
GetterIdle(g) == getters[g].pc \in {"returned", "threw"}

\* getDatabase up to its await: 'if (dbInstance) return dbInstance;', else
\* SQLite.openDatabase is called
getDatabase(g) ==
    /\ GetterIdle(g)
    /\ IF dbInstance # NoHandle
       THEN /\ getters' = [getters EXCEPT ![g] = Returned(dbInstance)]
            /\ UNCHANGED opened
       ELSE /\ getters' = [getters EXCEPT ![g] = [pc |-> "opening", handle |-> NoHandle]]
            /\ opened' = opened + 1
    /\ UNCHANGED <<dbInstance, closing, nextHandle>>
    /\ UNCHANGED <<products, stock_transactions, nextTxId, ret, notifVars, calls>>

\* the promise of openDatabase resolves: 'dbInstance = await ...; return
\* dbInstance'
openDatabaseResolves(g, handle) ==
    /\ getters[g].pc = "opening"
    /\ handle \in OpenResults
    /\ dbInstance' = handle
    /\ getters' = [getters EXCEPT ![g] = Returned(handle)]
    /\ nextHandle' = IF handle = nextHandle THEN nextHandle + 1 ELSE nextHandle
    /\ UNCHANGED <<closing, opened>>
    /\ UNCHANGED <<products, stock_transactions, nextTxId, ret, notifVars, calls>>

\* the promise of openDatabase rejects: the error is logged and rethrown
openDatabaseRejects(g) ==
    /\ getters[g].pc = "opening"
    /\ getters' = [getters EXCEPT ![g] = [pc |-> "threw", handle |-> NoHandle]]
    /\ UNCHANGED <<dbInstance, closing, opened, nextHandle>>
    /\ UNCHANGED <<products, stock_transactions, nextTxId, ret, notifVars, calls>>

\* closeDatabase up to its await: 'if (dbInstance) await dbInstance.close()';
\* with no instance the call does nothing
closeDatabase ==
    /\ closing = NoHandle
    /\ dbInstance # NoHandle
    /\ closing' = dbInstance
    /\ UNCHANGED <<dbInstance, getters, opened, nextHandle>>
    /\ UNCHANGED <<products, stock_transactions, nextTxId, ret, notifVars, calls>>

\* close() resolves: 'dbInstance = null'.  The handles returned so far
\* belong to the connection that is closed, and the count of openDatabase
\* calls starts again
closeDatabaseResolves ==
    /\ closing # NoHandle
    /\ dbInstance' = NoHandle
    /\ closing' = NoHandle
    /\ opened' = 0
    /\ getters' = [g \in GetterIds |->
                     IF getters[g].pc = "returned" THEN Returned(NoHandle)
                     ELSE getters[g]]
    /\ UNCHANGED nextHandle
    /\ UNCHANGED <<products, stock_transactions, nextTxId, ret, notifVars, calls>>

NextDatabase ==
    \/ \E g \in GetterIds :
           (dbInstance = NoHandle => opened < MaxHandles) /\ getDatabase(g)
    \/ \E g \in GetterIds, h \in 1 .. MaxHandles : openDatabaseResolves(g, h)
    \/ \E g \in GetterIds : openDatabaseRejects(g)
    \/ closeDatabase
    \/ closeDatabaseResolves

SpecDatabase == Init /\ [][NextDatabase]_vars

(***************************************************************************)
(* Alerts that are removed from the list: the user marks, deletes and      *)
(* clears notifications between sweeps.                                    *)
(***************************************************************************)
NextDedup ==
    \/ /\ ret.status # "pending"
       /\ \/ \E s \in SweepStocks, m \in Thresholds :
                 Len(products) < MaxProducts /\ createProduct(s, m, NULL)
          \/ Tick
          \/ checkLowStockAlerts
          \/ \E i \in NotifIdArgs : markAsRead(i)
          \/ \E i \in NotifIdArgs : deleteNotification(i)
          \/ clearReadNotifications
          \/ clearAllNotifications
    \/ checkLowStockAlertsCallback

SpecDedup == Init /\ [][NextDedup]_vars

(***************************************************************************)
(* The stock-out form.  The screen reads the product once when it mounts,  *)
(* validates the entered quantity against that reading, records the OUT    *)
(* movement and emits its notifications; a successful save leaves the      *)
(* screen.                                                                 *)
(***************************************************************************)
\* the execution context that holds the mounted screen's state
Screen == 1

\* quantities typed into the form, and ledger and notification rows the
\* form may write
StockOutQuantities == 0 .. 2

\* useEffect(() => { loadProduct(); }, []): setProduct(data), or
\* navigation.goBack() when there is no such product
loadProduct(c, productId) ==
    /\ calls[c].pc = "idle"
    /\ LET rows == getProductById(productId) IN
       IF Len(rows) = 0
       THEN /\ ret' = Throw("loadProduct", "ProductNotFound")
            /\ UNCHANGED calls
       ELSE /\ calls' = [calls EXCEPT ![c] =
                   [Started EXCEPT !.op = "StockOutScreen", !.pc = "loaded",
                                !.productId = productId, !.rows = rows]]
            /\ ret' = Result("loadProduct", "ok", 0, productId, 0, 0)
    /\ UNCHANGED <<products, stock_transactions, nextTxId, notifVars, connVars>>

\* faulty variant: the LOW_STOCK alert is skipped when the product has a
\* LOW_STOCK notification of the last 24 hours
StockOutNotificationsDeduplicated(product, productId, qty) ==
    LET afterOut == InsertNotification(notifications, nextNotifId, "STOCK_OUT",
                                       productId, qty)
        newStock == product.current_stock - qty
    IN  IF /\ product.min_stock_threshold > 0
           /\ newStock <= product.min_stock_threshold
           /\ ~checkRecentNotification(notifications, "LOW_STOCK", productId, 24)
        THEN [notifications |-> InsertNotification(afterOut, nextNotifId + 1,
                                    "LOW_STOCK", productId, newStock),
              nextNotifId |-> nextNotifId + 2]
        ELSE [notifications |-> afterOut, nextNotifId |-> nextNotifId + 1]

\* the notifications handleSave emits after the OUT: STOCK_OUT always,
\* LOW_STOCK when the threshold is set and the stock computed from the
\* screen's reading is at or below it
StockOutNotifications(product, productId, qty) ==
    LET afterOut == InsertNotification(notifications, nextNotifId, "STOCK_OUT",
                                       productId, qty)
        newStock == product.current_stock - qty
    IN  IF product.min_stock_threshold > 0 /\ newStock <= product.min_stock_threshold
        THEN [notifications |-> InsertNotification(afterOut, nextNotifId + 1,
                                    "LOW_STOCK", productId, newStock),
              nextNotifId |-> nextNotifId + 2]
        ELSE [notifications |-> afterOut, nextNotifId |-> nextNotifId + 1]

\* handleSave: validation against the screen's reading, then
\* createStockTransaction(productId, 'OUT', qty, notes, null), then the
\* notifications, then the alert whose button leaves the screen; an error
\* of createStockTransaction is caught and shown
handleSave(c, qty) ==
    /\ Suspended(c, "StockOutScreen", "loaded")
    /\ LET product == calls[c].rows[1]
           productId == calls[c].productId
           rows == getProductById(productId)
       IN  IF qty <= 0 \/ qty > product.current_stock
           THEN /\ ret' = Throw("handleSave", "Rejected")
                /\ UNCHANGED <<products, stock_transactions, nextTxId,
                               notifications, nextNotifId, calls>>
           ELSE IF \/ Len(rows) = 0
                   \/ InsufficientStock("OUT", NewStock(rows[1].current_stock,
                                                        "OUT", qty))
           THEN /\ ret' = Throw("handleSave", "SaveFailed")
                /\ UNCHANGED <<products, stock_transactions, nextTxId,
                               notifications, nextNotifId, calls>>
           ELSE LET balance == NewStock(rows[1].current_stock, "OUT", qty)
                    emitted == StockOutNotifications(product, productId, qty)
                IN  /\ stock_transactions' = Append(stock_transactions,
                           NewRow(nextTxId, productId, "OUT", qty, balance,
                                  NULL, NULL))
                    /\ nextTxId' = nextTxId + 1
                    /\ products' = updateProductStock(products, productId, balance)
                    /\ notifications' = emitted.notifications
                    /\ nextNotifId' = emitted.nextNotifId
                    /\ calls' = [calls EXCEPT ![c] = Idle]
                    /\ ret' = Result("handleSave", "ok", nextTxId, productId,
                                     rows[1].current_stock, balance)
    /\ UNCHANGED <<now, connVars>>

NextStockOut ==
    \/ /\ ret.status # "pending"
       /\ \/ \E s \in SweepStocks, m \in Thresholds :
                 Len(products) < MaxProducts /\ createProduct(s, m, NULL)
          \/ \E p \in ProductIdArgs : loadProduct(Screen, p)
          \/ \E q \in StockOutQuantities :
                 /\ nextTxId <= MaxLedger
                 /\ nextNotifId + 1 <= MaxScreenNotifs
                 /\ handleSave(Screen, q)
          \/ Tick
          \/ checkLowStockAlerts
    \/ checkLowStockAlertsCallback

SpecStockOut == Init /\ [][NextStockOut]_vars

(***************************************************************************)
(* The expiry window over time: dated batches are received and issued for  *)
(* several products while the clock advances.                              *)
(***************************************************************************)
NextExpiry ==
    \/ Len(products) < MaxSweepProducts /\ createProduct(0, 0, NULL)
    \/ \E p \in DOMAIN products, t \in {"IN", "OUT"}, q \in FormQuantities,
          b \in ExpiryBatchTags :
           createStockTransaction(p, t, q, b[1], b[2])
    \/ Tick

SpecExpiry == Init /\ [][NextExpiry]_vars

(***************************************************************************)
(* Properties.                                                             *)
(***************************************************************************)
\* replay of ledger rows in order: IN adds, OUT subtracts, ADJUST sets
RECURSIVE ReplayFrom(_, _)
ReplayFrom(balance, rows) ==
    IF rows = <<>> THEN balance
    ELSE ReplayFrom(
             CASE Head(rows).type = "IN" -> balance + Head(rows).quantity
               [] Head(rows).type = "OUT" -> balance - Head(rows).quantity
               [] OTHER -> Head(rows).quantity,
             Tail(rows))

\* the surviving ledger rows of one product, in rowid order
ProductTransactions(txs, productId) ==
    SelectSeq(txs, LAMBDA r : r.product_id = productId)

LedgerBalance(productId) ==
    ReplayFrom(0, ProductTransactions(stock_transactions, productId))

LastRow(txs) == txs[Len(txs)]

LedgerOps == {"createStockTransaction", "deleteTransaction"}

\* C1: after every successful createStockTransaction or deleteTransaction on a
\* product, its cached current_stock equals the replay of its surviving
\* ledger rows.
BalanceInvariant ==
    (ret.op \in LedgerOps /\ ret.status = "ok")
        => \A p \in DOMAIN products : products[p].current_stock = LedgerBalance(p)

\* C2: no product ever has current_stock < 0.
NonNegativeStock ==
    \A p \in DOMAIN products : products[p].current_stock >= 0

\* C3: in createStockTransaction and deleteTransaction the ledger write and
\* the cache write apply both or neither, also when a statement fails: a
\* step that inserts a row leaves current_stock at that row's balance, a step
\* that deletes a row leaves current_stock at the reverted balance, and a
\* step that leaves the ledger alone leaves current_stock alone.
AtomicLedgerWrite ==
    [][ret'.op \in LedgerOps =>
          /\ \A i \in DOMAIN stock_transactions' :
                 (\A j \in DOMAIN stock_transactions :
                      stock_transactions[j].id # stock_transactions'[i].id)
                 => products'[stock_transactions'[i].product_id].current_stock
                        = stock_transactions'[i].balance_after
          /\ \A j \in DOMAIN stock_transactions :
                 (\A i \in DOMAIN stock_transactions' :
                      stock_transactions'[i].id # stock_transactions[j].id)
                 => products'[stock_transactions[j].product_id].current_stock
                        = RevertedStock(
                              products[stock_transactions[j].product_id].current_stock,
                              stock_transactions[j].type,
                              stock_transactions[j].quantity)
          /\ stock_transactions' = stock_transactions => products' = products
      ]_vars

\* C4: an OUT of q on a product with cached stock s fails with the
\* insufficient-stock error, writing nothing, when s - q < 0, and otherwise
\* (s - q = 0 included) succeeds and leaves current_stock = s - q.
OutMovement ==
    [][\A p \in DOMAIN products, q \in Quantities :
           createStockTransaction(p, "OUT", q, NULL, NULL)
           => IF products[p].current_stock - q < 0
              THEN /\ ret'.status = "InsufficientStock"
                   /\ stock_transactions' = stock_transactions
                   /\ products' = products
              ELSE /\ ret'.status = "ok"
                   /\ Len(stock_transactions') = Len(stock_transactions) + 1
                   /\ products'[p].current_stock = products[p].current_stock - q
      ]_vars

\* C4 witness: an OUT has just been refused on a product whose ledger also
\* holds an OUT that took the stock to exactly 0
OutMovementWitness ==
    /\ ret.op = "createStockTransaction"
    /\ ret.status = "InsufficientStock"
    /\ \E i \in DOMAIN stock_transactions :
           /\ stock_transactions[i].type = "OUT"
           /\ stock_transactions[i].quantity > 0
           /\ stock_transactions[i].balance_after = 0

\* C5: a successful IN or OUT immediately followed by deleteTransaction on the
\* row it created restores the stock and the ledger to their state before
\* the movement.
ReversalSymmetry ==
    [][(/\ ret.op = "createStockTransaction"
        /\ ret.status = "ok"
        /\ LastRow(stock_transactions).type \in {"IN", "OUT"}
        /\ deleteTransaction(ret.id))
       => /\ ret'.status = "ok"
          /\ products' = updateProductStock(products, ret.productId, ret.oldStock)
          /\ stock_transactions'
                 = SubSeq(stock_transactions, 1, Len(stock_transactions) - 1)
      ]_vars

\* C6: a deleteTransaction that fails because the id does not exist or because
\* the reverted balance would be negative deletes no row and leaves every
\* current_stock unchanged; and it does fail in those two cases.
FailedDeleteChangesNothing ==
    [][/\ (ret'.op = "deleteTransaction"
           /\ ret'.status \in {"TransactionNotFound", "NegativeStock"})
          => (stock_transactions' = stock_transactions /\ products' = products)
       /\ \A i \in TxIdArgs :
              deleteTransaction(i) =>
                  LET found == getTransactionById(i) IN
                  IF Len(found) = 0
                  THEN ret'.status = "TransactionNotFound"
                  ELSE RevertedStock(products[found[1].product_id].current_stock,
                                     found[1].type, found[1].quantity) < 0
                       => ret'.status = "NegativeStock"
      ]_vars

\* C6 witness: IN, then OUT, then the reversal of the IN has just been refused
FailedDeleteWitness ==
    /\ ret.op = "deleteTransaction"
    /\ ret.status = "NegativeStock"
    /\ Len(stock_transactions) = 2
    /\ stock_transactions[1].type = "IN"
    /\ stock_transactions[2].type = "OUT"
    /\ stock_transactions[2].quantity > 0
    /\ products[stock_transactions[1].product_id].current_stock >= 0
    /\ products[stock_transactions[1].product_id].current_stock
           < stock_transactions[1].quantity

\* C7: createStockTransaction changes the tables only for a product that
\* exists and is active.
OnlyActiveProducts ==
    [][\A p \in ProductIdArgs, t \in Types, q \in FormQuantities :
           (/\ createStockTransaction(p, t, q, NULL, NULL)
            /\ (p \notin DOMAIN products \/ products[p].is_active # 1))
           => /\ ret'.status # "ok"
              /\ stock_transactions' = stock_transactions
              /\ products' = products
      ]_vars

\* C8: an IN or OUT with quantity <= 0 is rejected before any write.
NonPositiveRejected ==
    [][\A p \in ProductIdArgs, t \in {"IN", "OUT"}, q \in Quantities :
           (q <= 0 /\ createStockTransaction(p, t, q, NULL, NULL))
           => /\ ret'.status # "ok"
              /\ stock_transactions' = stock_transactions
              /\ products' = products
      ]_vars

\* C9: for every product the quantities of its active batches sum to at most
\* its current_stock, and to exactly its current_stock when every movement of
\* the product carries a batch number.
BatchPartition ==
    \A p \in DOMAIN products :
        /\ getTotalBatchQuantity(p) <= products[p].current_stock
        /\ (\A i \in DOMAIN stock_transactions :
                stock_transactions[i].product_id = p
                => stock_transactions[i].batch_number # NULL)
           => getTotalBatchQuantity(p) = products[p].current_stock

\* C10: a successful OUT without a batch number, and a successful ADJUST,
\* leave the derived quantity of every batch unchanged; the OUT lowers
\* current_stock by its quantity (the ADJUST sets it).
UntaggedOutKeepsBatches ==
    [][(ret'.op = "createStockTransaction" /\ ret'.status = "ok")
       => LET r == LastRow(stock_transactions') IN
          ((r.type = "OUT" /\ r.batch_number = NULL) \/ r.type = "ADJUST")
          => /\ product_batches' = product_batches
             /\ \A g \in BatchGroups : current_quantity(g)' = current_quantity(g)
             /\ r.type = "OUT" =>
                    products'[r.product_id].current_stock
                        = products[r.product_id].current_stock - r.quantity
             /\ r.type = "ADJUST" =>
                    products'[r.product_id].current_stock = r.quantity
      ]_vars

\* C10 witness: IN tagged with a batch, then an untagged OUT: the batch keeps
\* its full quantity, which now exceeds what the stock says
UntaggedOutWitness ==
    /\ ret.op = "createStockTransaction"
    /\ ret.status = "ok"
    /\ Len(stock_transactions) = 2
    /\ stock_transactions[1].type = "IN"
    /\ stock_transactions[1].batch_number = "B100"
    /\ stock_transactions[2].type = "OUT"
    /\ stock_transactions[2].batch_number = NULL
    /\ stock_transactions[2].product_id = stock_transactions[1].product_id
    /\ \E b \in product_batches :
           /\ b.batch_number = "B100"
           /\ b.current_quantity = stock_transactions[1].quantity
    /\ ret.newStock = ret.oldStock - stock_transactions[2].quantity

\* C16: a successful createStockTransaction appends exactly one row to the
\* ledger; the row's balance_after is the product's current_stock right after
\* the call, which is old + q for IN, old - q for OUT and q for ADJUST; the
\* returned oldStock and newStock are the cached stock before and after.
MovementRecordsBalance ==
    [][(ret'.op = "createStockTransaction" /\ ret'.status = "ok")
       => /\ Len(stock_transactions') = Len(stock_transactions) + 1
          /\ SubSeq(stock_transactions', 1, Len(stock_transactions))
                 = stock_transactions
          /\ LET r == LastRow(stock_transactions')
                 p == ret'.productId
                 old == products[p].current_stock
             IN  /\ r.id = ret'.id
                 /\ r.product_id = p
                 /\ r.balance_after = products'[p].current_stock
                 /\ r.type = "IN" => r.balance_after = old + r.quantity
                 /\ r.type = "OUT" => r.balance_after = old - r.quantity
                 /\ r.type = "ADJUST" => r.balance_after = r.quantity
                 /\ ret'.oldStock = old
                 /\ ret'.newStock = products'[p].current_stock
                 /\ \A o \in DOMAIN products :
                        o # p => products'[o] = products[o]
      ]_vars

\* C16 witness: an ADJUST to 0 has just succeeded on a product that had stock
MovementRecordsBalanceWitness ==
    /\ ret.op = "createStockTransaction"
    /\ ret.status = "ok"
    /\ LastRow(stock_transactions).type = "ADJUST"
    /\ LastRow(stock_transactions).id = ret.id
    /\ ret.oldStock > 0
    /\ ret.newStock = 0
    /\ LastRow(stock_transactions).balance_after = 0
    /\ products[ret.productId].current_stock = 0

\* C17: ledger rows are immutable: a row that survives a step is unchanged
\* in every field; the ledger grows only by one row appended by
\* createStockTransaction or createProduct, and shrinks only in
\* deleteTransaction, which removes exactly the target row.
LedgerRowsImmutable ==
    [][/\ \A i \in DOMAIN stock_transactions, j \in DOMAIN stock_transactions' :
              stock_transactions[i].id = stock_transactions'[j].id
              => stock_transactions[i] = stock_transactions'[j]
       /\ Len(stock_transactions') >= Len(stock_transactions)
              => /\ SubSeq(stock_transactions', 1, Len(stock_transactions))
                        = stock_transactions
                 /\ Len(stock_transactions') <= Len(stock_transactions) + 1
       /\ Len(stock_transactions') > Len(stock_transactions)
              => ret'.op \in {"createStockTransaction", "createProduct"}
       /\ Len(stock_transactions') < Len(stock_transactions)
              => /\ ret'.op = "deleteTransaction"
                 /\ Len(stock_transactions') = Len(stock_transactions) - 1
                 /\ \A i \in TxIdArgs :
                        deleteTransaction(i)
                        => stock_transactions'
                               = SelectSeq(stock_transactions, LAMBDA r : r.id # i)
      ]_vars

\* C17 witness: the first of two movements has just been deleted; the
\* surviving row still shows the balance it recorded, which is no longer the
\* product's stock
LedgerRowsImmutableWitness ==
    /\ ret.op = "deleteTransaction"
    /\ ret.status = "ok"
    /\ Len(stock_transactions) = 1
    /\ stock_transactions[1].id = 2
    /\ stock_transactions[1].balance_after
           # products[stock_transactions[1].product_id].current_stock
    /\ stock_transactions[1].balance_after > 0

\* C18: updateProduct and deleteProduct leave every current_stock and the
\* whole ledger unchanged, and the current_stock of an existing product
\* changes only in a createStockTransaction or deleteTransaction step.
StockWrittenByLedgerOnly ==
    [][/\ ret'.op \in {"updateProduct", "deleteProduct"}
              => /\ stock_transactions' = stock_transactions
                 /\ DOMAIN products' = DOMAIN products
                 /\ \A p \in DOMAIN products :
                        products'[p].current_stock = products[p].current_stock
       /\ \A p \in DOMAIN products :
              products'[p].current_stock # products[p].current_stock
              => ret'.op \in LedgerOps
      ]_vars

\* C18 witness: a stocked product with a ledger row has just been edited
\* (its threshold raised) and then soft-deleted
StockWrittenByLedgerOnlyWitness ==
    /\ ret.op = "deleteProduct"
    /\ ret.productId \in DOMAIN products
    /\ products[ret.productId].is_active = 0
    /\ products[ret.productId].min_stock_threshold = 1
    /\ products[ret.productId].current_stock > 0
    /\ \E i \in DOMAIN stock_transactions :
           /\ stock_transactions[i].product_id = ret.productId
           /\ stock_transactions[i].balance_after
                  = products[ret.productId].current_stock

\* the (batch_number, batch_expiry_date) groups of a product's batch-tagged
\* movements whose sum(IN) - sum(OUT) is positive, as rows
ActiveGroupRows(productId) ==
    {[batch_number |-> g[2], batch_expiry_date |-> g[3],
      current_quantity |-> total_in(g) - total_out(g)] :
        g \in {h \in BatchGroups :
                  h[1] = productId /\ total_in(h) - total_out(h) > 0}}

\* C19: getProductBatches(productId) returns exactly the groups of that
\* product's batch-tagged movements with sum(IN) - sum(OUT) > 0, each once,
\* ordered by expiry date ascending; a group with quantity <= 0 never appears.
ActiveBatchesListed ==
    \A p \in ProductIdArgs :
        /\ getProductBatches(p) # {}
        /\ \A s \in getProductBatches(p) :
               /\ {s[i] : i \in DOMAIN s} = ActiveGroupRows(p)
               /\ Len(s) = Cardinality(ActiveGroupRows(p))
               /\ \A i \in DOMAIN s : s[i].current_quantity > 0
               /\ \A i, j \in DOMAIN s :
                      i < j => DayNumber(s[i].batch_expiry_date)
                                   <= DayNumber(s[j].batch_expiry_date)

\* C19 witness: the later-expiring batch was received first; the query lists
\* the two batches soonest first
ActiveBatchesListedWitness ==
    /\ Len(stock_transactions) = 2
    /\ stock_transactions[1].batch_number = "B200"
    /\ stock_transactions[2].batch_number = "B100"
    /\ stock_transactions[1].product_id = stock_transactions[2].product_id
    /\ \E s \in getProductBatches(stock_transactions[1].product_id) :
           /\ Len(s) = 2
           /\ s[1].batch_number = "B100"
           /\ s[2].batch_number = "B200"

\* C20: getOldestBatch(productId) returns null when the product has no active
\* batch, and otherwise an active batch of the product that carries the
\* earliest expiry date among them, also when an active batch has a batch
\* number but no expiry date.
OldestBatchEarliestExpiry ==
    \A p \in ProductIdArgs : \A b \in getOldestBatch(p) :
        IF ActiveGroupRows(p) = {} THEN b = NULL
        ELSE /\ b \in ActiveGroupRows(p)
             /\ \A c \in ActiveGroupRows(p) :
                    c.batch_expiry_date # NULL
                    => /\ b.batch_expiry_date # NULL
                       /\ DayNumber(b.batch_expiry_date)
                              <= DayNumber(c.batch_expiry_date)

\* the step in which a sweep's callback resolves the sweep's promise
SweepResolves(op) ==
    ret.op = op /\ ret.status = "pending" /\ ret'.status = "ok"

\* the product is one the low-stock sweep is meant to alert on
LowStock(p) ==
    /\ products[p].is_active = 1
    /\ products[p].min_stock_threshold > 0
    /\ products[p].current_stock <= products[p].min_stock_threshold

\* the LOW_STOCK notifications of a product that are at most 24 hours old
RecentLowStock(notifs, p) ==
    {i \in DOMAIN notifs : /\ notifs[i].type = "LOW_STOCK"
                           /\ notifs[i].product_id = p
                           /\ now - notifs[i].created_at <= 24}

\* the rows a step has added to the notifications table for a product
CreatedFor(p) ==
    {j \in DOMAIN notifications' :
        /\ j > Len(notifications)
        /\ notifications'[j].product_id = p}

\* C11: a checkLowStockAlerts call that finds a LOW_STOCK notification of a
\* low product at most 24 hours old (what an earlier call within 24 hours
\* leaves unless it is deleted) creates none for that product, and after
\* every call a low product has exactly one LOW_STOCK notification from the
\* last 24 hours.
DedupIdempotence ==
    [][SweepResolves("checkLowStockAlerts")
       => \A p \in DOMAIN products :
              LowStock(p)
              => /\ Cardinality(RecentLowStock(notifications', p)) = 1
                 /\ RecentLowStock(notifications, p) # {} => CreatedFor(p) = {}
      ]_vars

\* C11 witness: the second call has just resolved exactly 24 hours after the
\* first; the product is low and the one notification ever created is the
\* first call's
DedupIdempotenceWitness ==
    /\ ret.op = "checkLowStockAlerts"
    /\ ret.status = "ok"
    /\ ret.id = 1
    /\ nextNotifId = 2
    /\ Len(notifications) = 1
    /\ notifications[1].type = "LOW_STOCK"
    /\ notifications[1].created_at = now - 24
    /\ notifications[1].product_id \in DOMAIN products
    /\ LowStock(notifications[1].product_id)

\* C12: a checkLowStockAlerts sweep adds one LOW_STOCK row (priority HIGH,
\* is_read 0, quantity = current_stock) for a product if and only if the
\* product is active, its threshold is > 0, its stock is <= the threshold
\* and it has no LOW_STOCK notification from the last 24 hours; it adds
\* nothing else and changes no existing row.
LowStockSweepCreates ==
    [][SweepResolves("checkLowStockAlerts")
       => /\ SubSeq(notifications', 1, Len(notifications)) = notifications
          /\ \A j \in DOMAIN notifications' :
                 j > Len(notifications)
                 => notifications'[j].product_id \in DOMAIN products
          /\ \A p \in DOMAIN products :
                 IF /\ products[p].is_active = 1
                    /\ products[p].current_stock <= products[p].min_stock_threshold
                    /\ products[p].min_stock_threshold > 0
                    /\ RecentLowStock(notifications, p) = {}
                 THEN /\ Cardinality(CreatedFor(p)) = 1
                      /\ \A j \in CreatedFor(p) :
                             /\ notifications'[j].type = "LOW_STOCK"
                             /\ notifications'[j].priority = "HIGH"
                             /\ notifications'[j].is_read = 0
                             /\ notifications'[j].quantity = products[p].current_stock
                             /\ notifications'[j].created_at = now
                 ELSE CreatedFor(p) = {}
      ]_vars

\* C12 witness: a sweep has just created the alert of a product whose stock
\* equals its threshold
LowStockSweepCreatesWitness ==
    /\ ret.op = "checkLowStockAlerts"
    /\ ret.status = "ok"
    /\ \E i \in DOMAIN notifications :
           /\ notifications[i].type = "LOW_STOCK"
           /\ notifications[i].priority = "HIGH"
           /\ notifications[i].is_read = 0
           /\ notifications[i].created_at = now
           /\ notifications[i].id = nextNotifId - 1
           /\ notifications[i].product_id \in DOMAIN products
           /\ products[notifications[i].product_id].current_stock
                  = products[notifications[i].product_id].min_stock_threshold
           /\ notifications[i].quantity
                  = products[notifications[i].product_id].current_stock

\* C13: a notification that survives a step keeps every field except that
\* is_read may go from 0 to 1, never from 1 to 0; markAsRead on a read
\* notification and markAllAsRead with no unread notification succeed and
\* change nothing.
ReadStateOneWay ==
    [][/\ \A i \in DOMAIN notifications, j \in DOMAIN notifications' :
              notifications[i].id = notifications'[j].id
              => /\ notifications[i].is_read = 1 => notifications'[j].is_read = 1
                 /\ [notifications'[j] EXCEPT !.is_read = 0]
                        = [notifications[i] EXCEPT !.is_read = 0]
       /\ \A i \in NotifIdArgs :
              (/\ markAsRead(i)
               /\ \E k \in DOMAIN notifications :
                      notifications[k].id = i /\ notifications[k].is_read = 1)
              => (ret'.status = "ok" /\ notifications' = notifications)
       /\ (/\ markAllAsRead
           /\ \A k \in DOMAIN notifications : notifications[k].is_read = 1)
              => (ret'.status = "ok" /\ notifications' = notifications)
      ]_vars

\* C13 witness: markAllAsRead has just succeeded with nothing to mark, on a
\* list whose notifications are all read
ReadStateOneWayWitness ==
    /\ ret.op = "markAllAsRead"
    /\ ret.status = "ok"
    /\ ret.id = 0
    /\ notifications # <<>>
    /\ \A k \in DOMAIN notifications : notifications[k].is_read = 1

\* C14: a sweep that hits a persistence error rejects its promise with the
\* error and leaves the notifications table as it was when the sweep began.
SweepAbortsAsWhole ==
    [][(ret.status = "pending" /\ ret'.status # "ok")
       => /\ ret'.status = "PersistenceError"
          /\ notifications' = notifications
      ]_vars

\* C15: the promise of every checkLowStockAlerts and checkExpiringAlerts call
\* is eventually resolved or rejected.
SweepSettles ==
    (ret.status = "pending")
        ~> (/\ ret.op \in {"checkLowStockAlerts", "checkExpiringAlerts"}
            /\ ret.status \in {"ok", "PersistenceError"})

\* today: the day the device's local clock shows
Today == now \div 24

\* days_until_expiry = floor(expiry_date - today): whole days between two
\* calendar dates
DaysUntilExpiry(date) == DayNumber(date) - Today

BatchKeys(rows) ==
    {<<r.product_id, r.batch_number, r.batch_expiry_date>> : r \in rows}

\* C21: getExpiringBatches(daysThreshold) returns exactly the active batches,
\* across all products, with 0 <= days_until_expiry <= daysThreshold, where
\* days_until_expiry = floor(expiry_date - today); expired batches and
\* batches beyond the threshold are left out.
ExpiringBatchesWindow ==
    \A d \in DaysThresholds, o \in UtcOffsets :
        \A s \in getExpiringBatches(d, o) :
            BatchKeys({s[i] : i \in DOMAIN s})
                = BatchKeys({b \in product_batches :
                               /\ b.batch_expiry_date # NULL
                               /\ DaysUntilExpiry(b.batch_expiry_date) >= 0
                               /\ DaysUntilExpiry(b.batch_expiry_date) <= d})

\* C22: countExpiringProducts(daysThreshold) is the number of distinct
\* product ids among the batches getExpiringBatches(daysThreshold) returns.
CountsDistinctProducts ==
    \A d \in DaysThresholds, o \in UtcOffsets :
        \A s \in getExpiringBatches(d, o) :
            countExpiringProducts(d, o)
                = Cardinality({s[i].product_id : i \in DOMAIN s})

\* C22 witness: one product has two batches in the window and is counted once
CountsDistinctProductsWitness ==
    \E d \in DaysThresholds, o \in UtcOffsets :
        /\ countExpiringProducts(d, o) = 1
        /\ \E s \in getExpiringBatches(d, o) :
               /\ Len(s) = 2
               /\ s[1].product_id = s[2].product_id
               /\ s[1].batch_number # s[2].batch_number

\* the EXPIRING_SOON notifications of a product that are at most 24 hours old
RecentExpiringSoon(notifs, p) ==
    {i \in DOMAIN notifs : /\ notifs[i].type = "EXPIRING_SOON"
                           /\ notifs[i].product_id = p
                           /\ now - notifs[i].created_at <= 24}

\* C23: a checkExpiringAlerts sweep adds one EXPIRING_SOON row for a product
\* if and only if the product is active, has an expiry date with
\* 0 < days_until_expiry <= 30, and has no EXPIRING_SOON notification from
\* the last 24 hours; notifications of another type or of another product
\* do not count, and the sweep adds nothing else.
ExpiringSweepCreates ==
    [][SweepResolves("checkExpiringAlerts")
       => /\ SubSeq(notifications', 1, Len(notifications)) = notifications
          /\ \A j \in DOMAIN notifications' :
                 j > Len(notifications)
                 => notifications'[j].product_id \in DOMAIN products
          /\ \A p \in DOMAIN products :
                 IF /\ products[p].is_active = 1
                    /\ products[p].expiry_date # NULL
                    /\ DaysUntilExpiry(products[p].expiry_date) > 0
                    /\ DaysUntilExpiry(products[p].expiry_date) <= 30
                    /\ RecentExpiringSoon(notifications, p) = {}
                 THEN /\ Cardinality(CreatedFor(p)) = 1
                      /\ \A j \in CreatedFor(p) :
                             notifications'[j].type = "EXPIRING_SOON"
                 ELSE CreatedFor(p) = {}
      ]_vars

\* C23 witness: the expiry sweep has just alerted on a product that got a
\* LOW_STOCK notification within the last 24 hours, 30 days before it expires
ExpiringSweepCreatesWitness ==
    /\ ret.op = "checkExpiringAlerts"
    /\ ret.status = "ok"
    /\ Len(notifications) = 2
    /\ notifications[1].type = "LOW_STOCK"
    /\ notifications[2].type = "EXPIRING_SOON"
    /\ notifications[2].product_id = notifications[1].product_id
    /\ notifications[2].created_at = now
    /\ now - notifications[1].created_at <= 24
    /\ DaysUntilExpiry(products[notifications[2].product_id].expiry_date) = 30

\* C24: a createStockTransaction call writes the stock it computed from its
\* own read: its INSERT records that balance and its UPDATE sets
\* current_stock to it, also when another call has written the product in
\* between, so the later of two racing OUT calls overwrites the earlier.
RacingOutsOverwrite ==
    [][\A c \in CallIds :
           /\ (Suspended(c, "createStockTransaction", "insert")
                /\ calls[c].type = "OUT")
              => /\ calls[c].newStock = calls[c].oldStock - calls[c].quantity
                 /\ calls[c].newStock >= 0
           /\ (Suspended(c, "createStockTransaction", "insert")
                /\ calls'[c].pc = "update")
              => /\ Len(stock_transactions') = Len(stock_transactions) + 1
                 /\ LastRow(stock_transactions').balance_after = calls[c].newStock
           /\ (Suspended(c, "createStockTransaction", "update")
                /\ calls'[c].pc = "idle")
              => /\ products'[calls[c].productId].current_stock = calls[c].newStock
                 /\ stock_transactions' = stock_transactions
                 /\ ret'.status = "ok"
      ]_vars

\* C24 witness: two OUT calls have both returned; both read the same stock
\* and passed the check, their quantities together exceed it, both rows are
\* in the ledger, and current_stock is not what the ledger replays to
RacingOutsWitness ==
    /\ \A c \in CallIds : calls[c].pc = "idle"
    /\ ret.op = "createStockTransaction"
    /\ ret.status = "ok"
    /\ \E i, j \in DOMAIN stock_transactions :
           /\ i < j
           /\ stock_transactions[i].type = "OUT"
           /\ stock_transactions[j].type = "OUT"
           /\ stock_transactions[i].product_id = ret.productId
           /\ stock_transactions[j].product_id = ret.productId
           /\ stock_transactions[i].balance_after + stock_transactions[i].quantity
                  = ret.oldStock
           /\ stock_transactions[j].balance_after + stock_transactions[j].quantity
                  = ret.oldStock
           /\ stock_transactions[i].quantity + stock_transactions[j].quantity
                  > ret.oldStock
    /\ products[ret.productId].current_stock = ret.newStock
    /\ products[ret.productId].current_stock # LedgerBalance(ret.productId)
    /\ LedgerBalance(ret.productId) < 0

\* C26: under every interleaving of createStockTransaction and
\* deleteTransaction calls on a product that starts with stock >= 0, with
\* IN/OUT quantities > 0 and ADJUST targets >= 0, every value written to
\* products.current_stock is >= 0: the balance a suspended call is about to
\* write, and the stock of every product.
WritesNonNegative ==
    /\ \A c \in CallIds :
           calls[c].pc \in {"insert", "delete", "update"} => calls[c].newStock >= 0
    /\ \A p \in DOMAIN products : products[p].current_stock >= 0

\* C26 witness: the reversal of the initial IN and an OUT ran interleaved,
\* both from a read of stock 1; the ledger that is left replays to a
\* negative balance while the stock written is 0
WritesNonNegativeWitness ==
    /\ \A c \in CallIds : calls[c].pc = "idle"
    /\ ret.status = "ok"
    /\ nextTxId = 3
    /\ Len(stock_transactions) = 1
    /\ stock_transactions[1].type = "OUT"
    /\ stock_transactions[1].id = 2
    /\ stock_transactions[1].balance_after = 0
    /\ products[stock_transactions[1].product_id].current_stock = 0
    /\ LedgerBalance(stock_transactions[1].product_id) < 0

\* C25: the dedup check is a recency query followed by a separate insert:
\* a sweep goes on to create the notification exactly when the query finds
\* no recent one, and the insert then adds the row whatever the table holds
\* by that time, so two overlapping sweeps can both insert for one product.
DedupCheckThenInsert ==
    [][\A c \in CallIds :
           /\ (Suspended(c, "checkLowStockAlerts", "check") /\ calls'[c] # calls[c])
              => /\ notifications' = notifications
                 /\ calls'[c].pc = "create"
                        <=> RecentLowStock(notifications,
                                           Head(calls[c].rows).id) = {}
           /\ (Suspended(c, "checkLowStockAlerts", "create") /\ calls'[c] # calls[c])
              => /\ Len(notifications') = Len(notifications) + 1
                 /\ SubSeq(notifications', 1, Len(notifications)) = notifications
                 /\ notifications'[Len(notifications')].type = "LOW_STOCK"
                 /\ notifications'[Len(notifications')].product_id
                        = Head(calls[c].rows).id
      ]_vars

\* C25 witness: two sweeps have both resolved and the product has two
\* LOW_STOCK notifications created within 24 hours of each other
DedupCheckThenInsertWitness ==
    /\ \A c \in CallIds : calls[c].pc = "idle"
    /\ ret.op = "checkLowStockAlerts"
    /\ ret.status = "ok"
    /\ Len(notifications) = 2
    /\ notifications[1].type = "LOW_STOCK"
    /\ notifications[2].type = "LOW_STOCK"
    /\ notifications[1].product_id = notifications[2].product_id
    /\ notifications[2].created_at - notifications[1].created_at <= 24
    /\ LowStock(notifications[1].product_id)

Appended == SubSeq(notifications', Len(notifications) + 1, Len(notifications'))

\* C28: a successful save of the stock-out form that leaves the stock at or
\* below a threshold > 0 appends a LOW_STOCK notification for the product
\* whether or not it has a recent one, and a save that does not appends
\* none; a sweep that resolves creates nothing for a product that has a
\* LOW_STOCK notification of the last 24 hours, the form's included.
StockOutAlerts ==
    [][/\ (ret'.op = "handleSave" /\ ret'.status = "ok")
          => LET p == ret'.productId IN
             /\ products'[p].current_stock = products[p].current_stock
                    - stock_transactions'[Len(stock_transactions')].quantity
             /\ SubSeq(notifications', 1, Len(notifications)) = notifications
             /\ Appended[1].type = "STOCK_OUT"
             /\ IF /\ products[p].min_stock_threshold > 0
                   /\ products'[p].current_stock <= products[p].min_stock_threshold
                THEN /\ Len(Appended) = 2
                     /\ Appended[2].type = "LOW_STOCK"
                     /\ Appended[2].product_id = p
                     /\ Appended[2].quantity = products'[p].current_stock
                     /\ Appended[2].created_at = now
                ELSE Len(Appended) = 1
       /\ SweepResolves("checkLowStockAlerts")
          => \A p \in DOMAIN products :
                 RecentLowStock(notifications, p) # {}
                 => \A j \in DOMAIN Appended : Appended[j].product_id # p
      ]_vars

\* C28 witness: two saves within 24 hours have each left a LOW_STOCK
\* notification for the product, and a sweep called after them has resolved
\* with the product selected and nothing created
StockOutAlertsWitness ==
    /\ ret.op = "checkLowStockAlerts"
    /\ ret.status = "ok"
    /\ ret.id = 1
    /\ Len(stock_transactions) = 2
    /\ Len(notifications) = 4
    /\ notifications[2].type = "LOW_STOCK"
    /\ notifications[4].type = "LOW_STOCK"
    /\ notifications[2].product_id = notifications[4].product_id
    /\ notifications[4].created_at - notifications[2].created_at <= 24
    /\ now - notifications[4].created_at <= 24

\* the ids of the rows of a notifications table
NotifIds(notifs) == {notifs[i].id : i \in DOMAIN notifs}

\* the rows of the table a step has left in it, in their order
Kept == SelectSeq(notifications, LAMBDA n : n.id \in NotifIds(notifications'))

\* C29: dedup rests on the rows of the table alone: deleteNotification
\* removes the row with the id, clearReadNotifications the rows marked read,
\* clearAllNotifications every row, a product whose recent LOW_STOCK rows
\* are all removed has no recent notification left, and a sweep that
\* resolves creates one LOW_STOCK notification for every low product
\* without a recent one in the table.
DedupNeedsRow ==
    [][/\ ret'.op \in {"deleteNotification", "clearReadNotifications",
                       "clearAllNotifications"}
          => /\ notifications' = Kept
             /\ ret'.op = "deleteNotification"
                => \A i \in NotifIdArgs :
                       deleteNotification(i) => i \notin NotifIds(notifications')
             /\ ret'.op = "clearReadNotifications"
                => NotifIds(notifications')
                       = {notifications[i].id :
                              i \in {j \in DOMAIN notifications :
                                         notifications[j].is_read = 0}}
             /\ ret'.op = "clearAllNotifications" => notifications' = <<>>
             /\ \A p \in DOMAIN products :
                    (\A i \in RecentLowStock(notifications, p) :
                         notifications[i].id \notin NotifIds(notifications'))
                    => ~checkRecentNotification(notifications', "LOW_STOCK", p, 24)
       /\ ret'.op = "markAsRead"
          => \A i \in NotifIdArgs :
                 markAsRead(i)
                 => \A j \in DOMAIN notifications' :
                        notifications'[j].id = i => notifications'[j].is_read = 1
       /\ SweepResolves("checkLowStockAlerts")
          => \A p \in DOMAIN products :
                 (LowStock(p) /\ RecentLowStock(notifications, p) = {})
                 => \E j \in DOMAIN Appended :
                        /\ Appended[j].type = "LOW_STOCK"
                        /\ Appended[j].product_id = p
                        /\ Appended[j].created_at = now
                        /\ \A k \in DOMAIN Appended :
                               Appended[k].product_id = p => k = j
      ]_vars

\* C29 witness: the product's first LOW_STOCK notification, less than 24
\* hours old, has been removed, and the sweep that followed has created a
\* second one, the only row of the table
DedupNeedsRowWitness ==
    /\ ret.op = "checkLowStockAlerts"
    /\ ret.status = "ok"
    /\ now <= 24
    /\ nextNotifId = 3
    /\ Len(notifications) = 1
    /\ notifications[1].id = 2
    /\ notifications[1].type = "LOW_STOCK"
    /\ notifications[1].created_at = now
    /\ LowStock(notifications[1].product_id)

\* C30: between two closeDatabase calls SQLite.openDatabase is called at
\* most once, and all callers of getDatabase that have returned hold the
\* same handle.
SingleOpen ==
    /\ opened <= 1
    /\ \A g, h \in GetterIds :
           (/\ getters[g].pc = "returned" /\ getters[g].handle # NoHandle
            /\ getters[h].pc = "returned" /\ getters[h].handle # NoHandle)
           => getters[g].handle = getters[h].handle

====
